---- MODULE Spec2Model ----
(***************************************************************************)
(* Model of INVENTORY.py: the items table, the stock_movements ledger and  *)
(* the Streamlit flows that write them (Create Item, Update Item, Delete   *)
(* Item, Apply Stock Increase, Dispatch Item).  Every Streamlit session    *)
(* runs the script in its own thread, and every helper opens its own       *)
(* SQLite connection and commits on its own, so the unit of atomicity is   *)
(* one committed statement: a flow is a chain of such steps, and steps of  *)
(* different sessions interleave.  The sessions are logged in as admin     *)
(* (require_admin lets every flow through), and as long as the users table *)
(* holds an admin the create_tables() of line 289 writes nothing, so the    *)
(* item flows start at their button handler.  The user flows (Login,       *)
(* Register, User Management) start at create_tables.  Suppliers are no    *)
(* part of the ledger and are left out.                                    *)
(***************************************************************************)
EXTENDS Integers, Sequences, FiniteSets, TLC

(* ------------------------------ bounds -------------------------------- *)
\* ids the items table may hand out (rows ever inserted)
MaxItems == 2
\* rows the stock_movements table may hold
MaxMovements == 2
\* largest value typed into a quantity input
MaxQty == 1
\* last tick of the wall clock
MaxTime == 2
\* largest quantity an adjustment may reach
MaxStock == 2
\* ids the users table may hand out
MaxUsers == 3
\* ticks of the wall clock in one calendar day (86400 seconds, scaled down)
DayLen == 2
\* the limit the Reporting page passes to get_stock_movements
ReportLimit == 1000

\* the concurrently running Streamlit sessions
Sessions == {"s1", "s2"}
\* values typed into "Item Code (unique)"; the form rejects the empty code
Codes == {"ITM-1", "ITM-2"}
\* values of the remaining inputs of the item form
Forms ==
  { [name |-> "Bolt", category |-> "HW", unit_price |-> 1, min_stock |-> 0, description |-> ""],
    [name |-> "Nut", category |-> "HW", unit_price |-> 2, min_stock |-> 1, description |-> "M8"] }
\* values typed into the party inputs (supplier, customer)
Parties == {"Acme"}
\* the movement types of the "Movement Type" select box
IncreaseTypes == {"PURCHASE", "ADJUSTMENT"}
\* values typed into "Reference / Invoice No."
References == {"INV-1"}

\* values typed into the username inputs
Usernames == {"admin", "bob"}
\* values typed into the password inputs
Passwords == {"admin", "pw"}
\* the roles of the "Role" select boxes
Roles == {"user", "admin"}

VARIABLES
  users,            \* table users: id -> row
  session_state,    \* per session: st.session_state (logged_in, user, role)
  items,            \* table items: id -> row
  stock_movements,  \* table stock_movements, in insertion order
  sqlite_sequence,  \* AUTOINCREMENT: the largest rowid each table ever had
  now,              \* datetime('now','localtime')
  pc,               \* per session: the statement its script run is at
  loc               \* per session: the local variables of its script run

vars == <<users, session_state, items, stock_movements, sqlite_sequence, now, pc, loc>>
tables == <<items, stock_movements, sqlite_sequence>>

(* ------------------------------ helpers ------------------------------- *)
\* the locals of a script run that is not inside a flow
NoLoc ==
  [fn |-> "", item_id |-> 0, item_code |-> "", quantity |-> 0, movement_type |-> "",
   party |-> "", note |-> "", new_qty |-> 0, ok |-> FALSE, msg |-> "",
   movements_df |-> <<>>, low_stock_df |-> {}, daily_summary |-> <<>>]

\* the row ids holding item_code (at most one, item_code is UNIQUE)
IdsOfCode(item_code) == {i \in DOMAIN items : items[i].item_code = item_code}

\* flows between their first write and their ledger insert
InFlight == {s \in Sessions : pc[s] \in {"create_log", "adjust_update", "adjust_log"}}

\* room in the ledger for one more flow that will log a movement
LedgerRoom == Len(stock_movements) + Cardinality(InFlight) < MaxMovements

\* the end of a flow: what the script run shows (st.success, st.error), and of
\* its locals the call that was made
Return(s, l, ok, msg) ==
  /\ pc' = [pc EXCEPT ![s] = "returned"]
  /\ loc' = [loc EXCEPT ![s] = [NoLoc EXCEPT !.fn = l.fn, !.item_id = l.item_id,
                                             !.item_code = l.item_code,
                                             !.quantity = l.quantity,
                                             !.ok = ok, !.msg = msg]]

(* ------------------------------- init --------------------------------- *)
\* hash_password: the SHA-256 digest of the password
hash_password(password) == <<"sha256", password>>

\* The tables after the first create_tables(): empty but for the default
\* admin.  Both sessions have logged in as that admin.
Init ==
  /\ users = [u \in {1} |-> [username |-> "admin", password |-> hash_password("admin"),
                              role |-> "admin"]]
  /\ session_state = [s \in Sessions |-> [logged_in |-> TRUE, user |-> "admin", role |-> "admin"]]
  /\ items = <<>>
  /\ stock_movements = <<>>
  /\ sqlite_sequence = [items |-> 0, stock_movements |-> 0, users |-> 1]
  /\ now = 0
  /\ pc = [s \in Sessions |-> "idle"]
  /\ loc = [s \in Sessions |-> NoLoc]

(* --------------------------- table writes ----------------------------- *)
\* INSERT INTO items with a plain INTEGER PRIMARY KEY: the largest rowid plus one
InsertItem_NoAutoincrement(item_code, form, quantity) ==
  LET id == IF DOMAIN items = {} THEN 1
            ELSE (CHOOSE i \in DOMAIN items : \A j \in DOMAIN items : j <= i) + 1
      row == [item_code |-> item_code, name |-> form.name, category |-> form.category,
              unit_price |-> form.unit_price, min_stock |-> form.min_stock,
              quantity |-> quantity, description |-> form.description]
  IN /\ items' = [i \in DOMAIN items \cup {id} |-> IF i = id THEN row ELSE items[i]]
     /\ sqlite_sequence' = [sqlite_sequence EXCEPT !.items = IF id > @ THEN id ELSE @]

\* INSERT INTO items: the new table and the new sequence
InsertItem(item_code, form, quantity) ==
  LET id == sqlite_sequence.items + 1
      row == [item_code |-> item_code, name |-> form.name, category |-> form.category,
              unit_price |-> form.unit_price, min_stock |-> form.min_stock,
              quantity |-> quantity, description |-> form.description]
  IN /\ items' = [i \in DOMAIN items \cup {id} |-> IF i = id THEN row ELSE items[i]]
     /\ sqlite_sequence' = [sqlite_sequence EXCEPT !.items = id]

\* log_stock_movement: one INSERT INTO stock_movements, committed
log_stock_movement(item_id, movement_type, quantity, party, note) ==
  LET id == sqlite_sequence.stock_movements + 1
      row == [id |-> id, item_id |-> item_id, movement_type |-> movement_type,
              quantity |-> quantity, party |-> party, note |-> note, ts |-> now]
  IN /\ stock_movements' = Append(stock_movements, row)
     /\ sqlite_sequence' = [sqlite_sequence EXCEPT !.stock_movements = id]
     /\ UNCHANGED items

(* ------------------------------ actions ------------------------------- *)
\* no script run is at its end: the end of a run (Rerun) reads and writes
\* nothing shared, so it is taken before any other step
Settled == \A t \in Sessions : pc[t] # "returned"

\* create_item with no UNIQUE constraint on item_code
create_item_NoUnique(s, item_code, form, quantity) ==
  LET l == [NoLoc EXCEPT !.fn = "create_item", !.item_code = item_code, !.quantity = quantity]
  IN /\ sqlite_sequence.items < MaxItems
     /\ quantity > 0 => LedgerRoom
     /\ InsertItem(item_code, form, quantity)
     /\ UNCHANGED <<stock_movements, now, users, session_state>>
     /\ IF quantity > 0
        THEN /\ pc' = [pc EXCEPT ![s] = "create_log"]
             /\ loc' = [loc EXCEPT ![s] = [l EXCEPT !.ok = TRUE, !.msg = "Item created"]]
        ELSE Return(s, l, TRUE, "Item created")

\* "Create Item" button: create_item, one committed INSERT or IntegrityError
create_item(s, item_code, form, quantity) ==
  LET l == [NoLoc EXCEPT !.fn = "create_item", !.item_code = item_code, !.quantity = quantity]
  IN IF IdsOfCode(item_code) # {}
     THEN /\ Return(s, l, FALSE, "Item code must be unique")
          /\ UNCHANGED <<tables, now, users, session_state>>
     ELSE /\ sqlite_sequence.items < MaxItems
          /\ quantity > 0 => LedgerRoom
          /\ InsertItem(item_code, form, quantity)
          /\ UNCHANGED <<stock_movements, now, users, session_state>>
          /\ IF quantity > 0
             THEN /\ pc' = [pc EXCEPT ![s] = "create_log"]
                  /\ loc' = [loc EXCEPT ![s] = [l EXCEPT !.ok = TRUE, !.msg = "Item created"]]
             ELSE Return(s, l, TRUE, "Item created")

CreateItem(s) ==
  /\ pc[s] = "idle"
  /\ Settled
  /\ \E item_code \in Codes, form \in Forms, quantity \in 0..MaxQty :
       create_item(s, item_code, form, quantity)

\* the Create Item flow without its INITIAL movement
CreateLog_Skip(s) ==
  /\ pc[s] = "create_log"
  /\ Settled
  /\ Return(s, loc[s], TRUE, "Item created successfully.")
  /\ UNCHANGED <<tables, now, users, session_state>>

\* lines 484-493: get_items, the row of item_code, the INITIAL movement
CreateLog(s) ==
  /\ pc[s] = "create_log"
  /\ Settled
  /\ LET rows == IdsOfCode(loc[s].item_code)
     IN IF rows = {}
        THEN \* .iloc[0] on an empty frame raises IndexError: the run ends
             /\ Return(s, loc[s], FALSE, "IndexError")
             /\ UNCHANGED <<tables, now, users, session_state>>
        ELSE /\ log_stock_movement(CHOOSE i \in rows : TRUE, "INITIAL", loc[s].quantity,
                                   "SYSTEM", "Initial stock")
             /\ Return(s, loc[s], TRUE, "Item created successfully.")
             /\ UNCHANGED <<now, users, session_state>>

\* adjust_stock taking a missing row for a quantity of 0
adjust_stock_MissingIsZero(s, item_id, delta_qty, movement_type, party, note) ==
  LET l == [NoLoc EXCEPT !.fn = "adjust_stock", !.item_id = item_id, !.quantity = delta_qty,
                         !.movement_type = movement_type, !.party = party, !.note = note]
      current_qty == IF item_id \in DOMAIN items THEN items[item_id].quantity ELSE 0
      new_qty == current_qty + delta_qty
  IN /\ UNCHANGED <<tables, now, users, session_state>>
     /\ IF new_qty < 0
        THEN Return(s, l, FALSE, "Operation would result in negative stock")
        ELSE /\ LedgerRoom
             /\ new_qty <= MaxStock
             /\ pc' = [pc EXCEPT ![s] = "adjust_update"]
             /\ loc' = [loc EXCEPT ![s] = [l EXCEPT !.new_qty = new_qty]]

\* adjust_stock without the check of new_qty
adjust_stock_Unchecked(s, item_id, delta_qty, movement_type, party, note) ==
  LET l == [NoLoc EXCEPT !.fn = "adjust_stock", !.item_id = item_id, !.quantity = delta_qty,
                         !.movement_type = movement_type, !.party = party, !.note = note]
  IN /\ UNCHANGED <<tables, now, users, session_state>>
     /\ IF item_id \notin DOMAIN items
        THEN Return(s, l, FALSE, "Item not found")
        ELSE LET new_qty == items[item_id].quantity + delta_qty
             IN /\ LedgerRoom
                /\ new_qty <= MaxStock
                /\ pc' = [pc EXCEPT ![s] = "adjust_update"]
                /\ loc' = [loc EXCEPT ![s] = [l EXCEPT !.new_qty = new_qty]]

\* adjust_stock, lines 196-208: the SELECT and the two checks
adjust_stock(s, item_id, delta_qty, movement_type, party, note) ==
  LET l == [NoLoc EXCEPT !.fn = "adjust_stock", !.item_id = item_id, !.quantity = delta_qty,
                         !.movement_type = movement_type, !.party = party, !.note = note]
  IN /\ UNCHANGED <<tables, now, users, session_state>>
     /\ IF item_id \notin DOMAIN items
        THEN Return(s, l, FALSE, "Item not found")
        ELSE LET current_qty == items[item_id].quantity
                 new_qty == current_qty + delta_qty
             IN IF new_qty < 0
                THEN Return(s, l, FALSE, "Operation would result in negative stock")
                ELSE /\ LedgerRoom
                     /\ new_qty <= MaxStock
                     /\ pc' = [pc EXCEPT ![s] = "adjust_update"]
                     /\ loc' = [loc EXCEPT ![s] = [l EXCEPT !.new_qty = new_qty]]

\* the Apply Stock Increase flow without the check of line 524
ApplyStockIncrease_NoCheck(s) ==
  /\ pc[s] = "idle"
  /\ Settled
  /\ \E item_id \in 1..sqlite_sequence.items, delta \in 0..MaxQty,
        movement_type \in IncreaseTypes, party \in Parties :
       adjust_stock(s, item_id, delta, movement_type, party, "Stock update")

\* "Apply Stock Increase" button, lines 516-532; the row comes from the items_df
\* the run read at line 503, which another session may have deleted since
ApplyStockIncrease(s) ==
  /\ pc[s] = "idle"
  /\ Settled
  /\ \E item_id \in 1..sqlite_sequence.items, delta \in 0..MaxQty,
        movement_type \in IncreaseTypes, party \in Parties :
       IF delta <= 0
       THEN /\ Return(s, [NoLoc EXCEPT !.fn = "increase", !.quantity = delta],
                      FALSE, "Quantity must be greater than zero.")
            /\ UNCHANGED <<tables, now, users, session_state>>
       ELSE adjust_stock(s, item_id, delta, movement_type, party, "Stock update")

\* "Dispatch Item" button, lines 652-671
DispatchItem(s) ==
  /\ pc[s] = "idle"
  /\ Settled
  /\ \E item_id \in 1..sqlite_sequence.items, qty \in 1..MaxQty,
        customer \in Parties, reference \in References :
       LET delta == -qty
       IN adjust_stock(s, item_id, delta, "DISPATCH", customer,
                       reference \o " - " \o "Dispatch / Sales")

\* adjust_stock, lines 210-212: UPDATE items SET quantity=new_qty, committed
AdjustUpdate(s) ==
  /\ pc[s] = "adjust_update"
  /\ Settled
  /\ items' = IF loc[s].item_id \in DOMAIN items
              THEN [items EXCEPT ![loc[s].item_id].quantity = loc[s].new_qty]
              ELSE items
  /\ pc' = [pc EXCEPT ![s] = "adjust_log"]
  /\ UNCHANGED <<stock_movements, sqlite_sequence, now, users, session_state, loc>>

\* adjust_stock logging the new quantity in place of the delta
AdjustLog_NewQty(s) ==
  /\ pc[s] = "adjust_log"
  /\ Settled
  /\ log_stock_movement(loc[s].item_id, loc[s].movement_type, loc[s].new_qty,
                        loc[s].party, loc[s].note)
  /\ Return(s, loc[s], TRUE, "Stock updated")
  /\ UNCHANGED <<now, users, session_state>>

\* adjust_stock, lines 214-216: the movement row, on a second connection
AdjustLog(s) ==
  /\ pc[s] = "adjust_log"
  /\ Settled
  /\ log_stock_movement(loc[s].item_id, loc[s].movement_type, loc[s].quantity,
                        loc[s].party, loc[s].note)
  /\ Return(s, loc[s], TRUE, "Stock updated")
  /\ UNCHANGED <<now, users, session_state>>

\* update_item: UPDATE items SET name, category, unit_price, min_stock, quantity,
\* description WHERE id=item_id
update_item(item_id, form, quantity) ==
  /\ items' = IF item_id \in DOMAIN items
              THEN [items EXCEPT ![item_id] =
                      [item_code |-> @.item_code, name |-> form.name, category |-> form.category,
                       unit_price |-> form.unit_price, min_stock |-> form.min_stock,
                       quantity |-> quantity, description |-> form.description]]
              ELSE items
  /\ UNCHANGED <<stock_movements, sqlite_sequence>>

\* "Update Item" button, lines 439-454: every input of the edit form is written
UpdateItem(s) ==
  /\ pc[s] = "idle"
  /\ Settled
  /\ \E item_id \in 1..sqlite_sequence.items, form \in Forms, quantity \in 0..MaxQty :
       /\ update_item(item_id, form, quantity)
       /\ Return(s, [NoLoc EXCEPT !.fn = "update_item", !.item_id = item_id,
                                  !.quantity = quantity], TRUE, "Item updated successfully.")
  /\ UNCHANGED <<now, users, session_state>>

\* delete_item_record with ON DELETE CASCADE on stock_movements.item_id
delete_item_record_Cascade(item_id) ==
  /\ items' = [i \in DOMAIN items \ {item_id} |-> items[i]]
  /\ stock_movements' = SelectSeq(stock_movements, LAMBDA m : m.item_id # item_id)
  /\ UNCHANGED sqlite_sequence

\* delete_item_record: DELETE FROM items WHERE id=item_id
delete_item_record(item_id) ==
  /\ items' = [i \in DOMAIN items \ {item_id} |-> items[i]]
  /\ UNCHANGED <<stock_movements, sqlite_sequence>>

\* "Delete Item" button, lines 456-461
DeleteItem(s) ==
  /\ pc[s] = "idle"
  /\ Settled
  /\ \E item_id \in 1..sqlite_sequence.items :
       /\ delete_item_record(item_id)
       /\ Return(s, [NoLoc EXCEPT !.fn = "delete_item_record", !.item_id = item_id],
                 TRUE, "Item deleted.")
  /\ UNCHANGED <<now, users, session_state>>

\* st.experimental_rerun / the end of the script run: its locals are gone.
\* The step touches nothing another session reads, so it is taken before
\* any other step (Settled).
Rerun(s) ==
  /\ pc[s] = "returned"
  /\ pc' = [pc EXCEPT ![s] = "idle"]
  /\ loc' = [loc EXCEPT ![s] = NoLoc]
  /\ UNCHANGED <<tables, now, users, session_state>>

\* a script run that ends between two committed statements: the server is
\* stopped, or the next statement raises (sqlite3.OperationalError, which
\* nothing catches).  What is committed stays committed.
Crash(s) ==
  /\ pc[s] \in {"create_log", "adjust_update", "adjust_log"}
  /\ Settled
  /\ Return(s, loc[s], FALSE, "crashed")
  /\ UNCHANGED <<tables, now, users, session_state>>

(* ------------------------------- users -------------------------------- *)
\* the locals of a run of a user flow
UserLoc(fn) == [NoLoc EXCEPT !.fn = fn]

\* some row of users holds this username (username is UNIQUE)
NameTaken(username) == \E u \in DOMAIN users : users[u].username = username

\* INSERT INTO users: the new table and the new sequence
InsertUser(username, password, role) ==
  LET id == sqlite_sequence.users + 1
      row == [username |-> username, password |-> hash_password(password), role |-> role]
  IN /\ sqlite_sequence.users < MaxUsers
     /\ users' = [u \in DOMAIN users \cup {id} |-> IF u = id THEN row ELSE users[u]]
     /\ sqlite_sequence' = [sqlite_sequence EXCEPT !.users = id]

\* create_tables, lines 76-84: with no admin row, INSERT OR IGNORE the default
\* admin; a row that already holds the username "admin" makes it ignored
create_tables ==
  IF \E u \in DOMAIN users : users[u].role = "admin"
  THEN UNCHANGED <<users, sqlite_sequence>>
  ELSE IF NameTaken("admin")
       THEN UNCHANGED <<users, sqlite_sequence>>
       ELSE InsertUser("admin", "admin", "admin")

\* line 289: every script run starts with create_tables()
CreateTables(s) ==
  /\ pc[s] = "idle"
  /\ Settled
  /\ create_tables
  /\ pc' = [pc EXCEPT ![s] = "page"]
  /\ UNCHANGED <<items, stock_movements, now, loc, session_state>>

\* add_user: one committed INSERT or IntegrityError
add_user(s, username, password, role) ==
  IF NameTaken(username)
  THEN /\ Return(s, UserLoc("add_user"), FALSE, "Username already exists")
       /\ UNCHANGED <<users, sqlite_sequence>>
  ELSE /\ InsertUser(username, password, role)
       /\ Return(s, UserLoc("add_user"), TRUE, "User created")

\* update_user_role: UPDATE users SET role=new_role WHERE id=user_id
update_user_role(table, user_id, new_role) ==
  IF user_id \in DOMAIN table THEN [table EXCEPT ![user_id].role = new_role] ELSE table

\* reset_user_password: UPDATE users SET password=hash WHERE id=user_id
reset_user_password(table, user_id, new_password) ==
  IF user_id \in DOMAIN table
  THEN [table EXCEPT ![user_id].password = hash_password(new_password)]
  ELSE table

\* delete_user: DELETE FROM users WHERE id=user_id
delete_user(table, user_id) == [u \in DOMAIN table \ {user_id} |-> table[u]]

\* "Login" button, lines 312-322
Login(s) ==
  /\ pc[s] = "page"
  /\ Settled
  /\ ~session_state[s].logged_in
  /\ \E username \in Usernames, password \in Passwords :
       LET rows == {u \in DOMAIN users : /\ users[u].username = username
                                         /\ users[u].password = hash_password(password)}
       IN IF rows # {}
          THEN LET user == users[CHOOSE u \in rows : TRUE]
               IN /\ session_state' = [session_state EXCEPT ![s] =
                       [logged_in |-> TRUE, user |-> user.username, role |-> user.role]]
                  /\ Return(s, UserLoc("login_user"), TRUE, "Welcome")
          ELSE /\ Return(s, UserLoc("login_user"), FALSE, "Invalid username or password.")
               /\ UNCHANGED session_state
  /\ UNCHANGED <<users, tables, now>>

\* "Logout" button, lines 340-344
Logout(s) ==
  /\ pc[s] = "page"
  /\ Settled
  /\ session_state[s].logged_in
  /\ session_state' = [session_state EXCEPT ![s] = [logged_in |-> FALSE, user |-> "", role |-> ""]]
  /\ Return(s, UserLoc("logout"), TRUE, "")
  /\ UNCHANGED <<users, tables, now>>

\* "Register" button, lines 328-333: any role may be chosen
Register(s) ==
  /\ pc[s] = "page"
  /\ Settled
  /\ ~session_state[s].logged_in
  /\ \E new_username \in Usernames, new_password \in Passwords, new_role \in Roles :
       add_user(s, new_username, new_password, new_role)
  /\ UNCHANGED <<items, stock_movements, now, session_state>>

\* "Create User (Admin Panel)" button, lines 762-771, behind require_admin
CreateUser(s) ==
  /\ pc[s] = "page"
  /\ Settled
  /\ session_state[s].logged_in /\ session_state[s].role = "admin"
  /\ \E u_name \in Usernames, u_pass \in Passwords, u_role \in Roles :
       add_user(s, u_name, u_pass, u_role)
  /\ UNCHANGED <<items, stock_movements, now, session_state>>

\* "Update Role / Password" button, lines 794-799: the selected row gets
\* new_role, and new_password if one was typed
UpdateUser(s) ==
  /\ pc[s] = "page"
  /\ Settled
  /\ session_state[s].logged_in /\ session_state[s].role = "admin"
  /\ \E user_id \in DOMAIN users, new_role \in Roles, new_password \in Passwords \cup {""} :
       LET updated == update_user_role(users, user_id, new_role)
       IN users' = IF new_password # ""
                   THEN reset_user_password(updated, user_id, new_password)
                   ELSE updated
  /\ Return(s, UserLoc("update_user_role"), TRUE, "User updated.")
  /\ UNCHANGED <<tables, now, session_state>>

\* "Delete User" button, lines 801-807: only the row of the session's own
\* username is refused
DeleteUser(s) ==
  /\ pc[s] = "page"
  /\ Settled
  /\ session_state[s].logged_in /\ session_state[s].role = "admin"
  /\ \E user_id \in DOMAIN users :
       IF users[user_id].username = session_state[s].user
       THEN /\ Return(s, UserLoc("delete_user"), FALSE,
                      "You cannot delete the currently logged-in user.")
            /\ UNCHANGED users
       ELSE /\ users' = delete_user(users, user_id)
            /\ Return(s, UserLoc("delete_user"), TRUE, "User deleted.")
  /\ UNCHANGED <<tables, now, session_state>>

(* ------------------------------ reports ------------------------------- *)
\* the stock_movements rows the JOIN with items keeps, in insertion order
Joined == SelectSeq(stock_movements, LAMBDA m : m.item_id \in DOMAIN items)

\* one row of the SELECT of get_stock_movements
JoinRow(m) ==
  [id |-> m.id, item_code |-> items[m.item_id].item_code, name |-> items[m.item_id].name,
   movement_type |-> m.movement_type, quantity |-> m.quantity, party |-> m.party,
   note |-> m.note, ts |-> m.ts]

\* ORDER BY sm.ts DESC: the orders of rows the clause allows.  It names no
\* second key, so rows of one ts come in any order.
OrderByTsDesc(rows) ==
  {p \in [1..Len(rows) -> 1..Len(rows)] :
     /\ \A a, b \in 1..Len(rows) : a # b => p[a] # p[b]
     /\ \A a, b \in 1..Len(rows) : a < b => rows[p[a]].ts >= rows[p[b]].ts}

\* get_stock_movements(limit): the frames the query may return
get_stock_movements(limit) ==
  LET n == IF Len(Joined) < limit THEN Len(Joined) ELSE limit
  IN {[k \in 1..n |-> JoinRow(Joined[p[k]])] : p \in OrderByTsDesc(Joined)}

\* the low stock rows without the rows at their min_stock
low_stock_df_Strict(items_df) ==
  {[item_code |-> items_df[i].item_code, name |-> items_df[i].name,
    quantity |-> items_df[i].quantity, min_stock |-> items_df[i].min_stock] :
     i \in {j \in DOMAIN items_df : items_df[j].quantity < items_df[j].min_stock}}

\* line 701 (and 377): the rows of items_df at or below their min_stock
low_stock_df(items_df) ==
  {[item_code |-> items_df[i].item_code, name |-> items_df[i].name,
    quantity |-> items_df[i].quantity, min_stock |-> items_df[i].min_stock] :
     i \in {j \in DOMAIN items_df : items_df[j].quantity <= items_df[j].min_stock}}

\* ts.dt.date: the calendar day of a timestamp
DateOf(ts) == ts \div DayLen

\* groupby("date")["quantity"].sum() over the rows of a frame from row k on
RECURSIVE SumOfDate(_, _, _)
SumOfDate(df, date, k) ==
  IF k > Len(df) THEN 0
  ELSE (IF DateOf(df[k].ts) = date THEN df[k].quantity ELSE 0) + SumOfDate(df, date, k + 1)

\* lines 716-724: the DISPATCH rows of movements_df, summed per date, .abs()
daily_summary(movements_df) ==
  LET dispatch_df == SelectSeq(movements_df, LAMBDA m : m.movement_type = "DISPATCH")
      dates == {DateOf(dispatch_df[k].ts) : k \in 1..Len(dispatch_df)}
  IN [date \in dates |->
        LET total == SumOfDate(dispatch_df, date, 1)
        IN IF total < 0 THEN -total ELSE total]

\* the Reporting & Analytics page, lines 683-740: what one script run shows
Reporting(s) ==
  /\ pc[s] = "idle"
  /\ Settled
  /\ \E movements_df \in get_stock_movements(ReportLimit) :
       loc' = [loc EXCEPT ![s] =
                 [NoLoc EXCEPT !.fn = "reporting", !.ok = TRUE,
                               !.movements_df = movements_df,
                               !.low_stock_df = low_stock_df(items),
                               !.daily_summary = daily_summary(movements_df)]]
  /\ pc' = [pc EXCEPT ![s] = "returned"]
  /\ UNCHANGED <<tables, now, users, session_state>>

\* the wall clock of datetime('now','localtime') advances
Tick ==
  /\ now < MaxTime
  /\ Settled
  /\ now' = now + 1
  /\ UNCHANGED <<tables, pc, loc, users, session_state>>

(* --------------------------- specifications --------------------------- *)
\* every session runs every flow, interleaved statement by statement
Next ==
  \/ \E s \in Sessions :
       \/ CreateItem(s)
       \/ CreateLog(s)
       \/ ApplyStockIncrease(s)
       \/ DispatchItem(s)
       \/ AdjustUpdate(s)
       \/ AdjustLog(s)
       \/ UpdateItem(s)
       \/ DeleteItem(s)
       \/ Rerun(s)

Spec == Init /\ [][Next]_vars

\* Item creation and stock adjustment only, one call after the other, each
\* run to completion.  Which session issues a call makes no difference to
\* the tables, so one session issues them all.
Teller == CHOOSE s \in Sessions : TRUE

NextLedger ==
  \/ CreateItem(Teller)
  \/ CreateLog(Teller)
  \/ ApplyStockIncrease(Teller)
  \/ DispatchItem(Teller)
  \/ AdjustUpdate(Teller)
  \/ AdjustLog(Teller)
  \/ Rerun(Teller)
  \/ Tick

SpecLedger == Init /\ [][NextLedger]_vars

\* ... and a call may end between its two writes
NextFail ==
  \/ CreateItem(Teller)
  \/ CreateLog(Teller)
  \/ ApplyStockIncrease(Teller)
  \/ DispatchItem(Teller)
  \/ AdjustUpdate(Teller)
  \/ AdjustLog(Teller)
  \/ Rerun(Teller)
  \/ Crash(Teller)

SpecFail == Init /\ [][NextFail]_vars

\* ... the calls of all sessions, interleaved statement by statement; none fails
NextRace ==
  \E s \in Sessions :
    \/ CreateItem(s)
    \/ CreateLog(s)
    \/ ApplyStockIncrease(s)
    \/ DispatchItem(s)
    \/ AdjustUpdate(s)
    \/ AdjustLog(s)
    \/ Rerun(s)

SpecRace == Init /\ [][NextRace]_vars

\* ... one call after the other, with the edit form, deletions and the
\* Reporting page
NextReport ==
  \/ CreateItem(Teller)
  \/ CreateLog(Teller)
  \/ ApplyStockIncrease(Teller)
  \/ DispatchItem(Teller)
  \/ AdjustUpdate(Teller)
  \/ AdjustLog(Teller)
  \/ UpdateItem(Teller)
  \/ DeleteItem(Teller)
  \/ Reporting(Teller)
  \/ Rerun(Teller)
  \/ Tick

SpecReport == Init /\ [][NextReport]_vars

\* the user flows of all sessions, one script run after the other
NextUsers ==
  \E s \in Sessions :
    \/ CreateTables(s)
    \/ Login(s)
    \/ Logout(s)
    \/ Register(s)
    \/ CreateUser(s)
    \/ UpdateUser(s)
    \/ DeleteUser(s)
    \/ Rerun(s)

SpecUsers == Init /\ [][NextUsers]_vars

(* ------------------------------- claims ------------------------------- *)
\* no script run is inside a flow
Quiet == \A s \in Sessions : pc[s] \in {"idle", "returned"}

\* sum of the signed quantities of the ledger rows of item i
RECURSIVE SumFrom(_, _, _)
SumFrom(ledger, i, k) ==
  IF k > Len(ledger) THEN 0
  ELSE (IF ledger[k].item_id = i THEN ledger[k].quantity ELSE 0) + SumFrom(ledger, i, k + 1)
LedgerSum(i) == SumFrom(stock_movements, i, 1)

\* item i has a ledger row of this movement type
HasRow(i, movement_type) ==
  \E k \in 1..Len(stock_movements) :
    stock_movements[k].item_id = i /\ stock_movements[k].movement_type = movement_type

\* C1: creations and adjustments called one after the other: after each
\* completed call every item's quantity is the sum of the signed quantities
\* of its stock_movements rows.
C1_QuantityIsLedgerSum ==
  Quiet => \A i \in DOMAIN items : items[i].quantity = LedgerSum(i)

\* an item created with stock and then dispatched, both calls completed
C1_Witness ==
  /\ Quiet
  /\ \E i \in DOMAIN items : HasRow(i, "INITIAL") /\ HasRow(i, "DISPATCH")

\* the step in which session s calls adjust_stock
AdjustCalled(s) ==
  pc[s] = "idle" /\ pc'[s] # "idle" /\ loc'[s].fn = "adjust_stock"

\* session s's adjust_stock returns (FALSE, msg) and the tables are as before
FailsWith(s, msg) ==
  /\ pc'[s] = "returned"
  /\ ~loc'[s].ok
  /\ loc'[s].msg = msg
  /\ items' = items
  /\ stock_movements' = stock_movements

\* C2: adjust_stock on an id that is no row of items fails with "Item not
\* found", and on a row whose quantity + delta is negative it fails with the
\* negative-stock message; in both cases the call inserts no movement and
\* changes no quantity.
C2_AdjustFailsClean ==
  [][\A s \in Sessions :
       AdjustCalled(s) =>
         LET id == loc'[s].item_id
             delta == loc'[s].quantity
         IN /\ id \notin DOMAIN items => FailsWith(s, "Item not found")
            /\ (id \in DOMAIN items /\ items[id].quantity + delta < 0) =>
                 FailsWith(s, "Operation would result in negative stock")]_vars

\* a dispatch of more than is in stock was refused, on an item with history
C2_Witness ==
  \E s \in Sessions :
    /\ pc[s] = "returned"
    /\ loc[s].fn = "adjust_stock"
    /\ loc[s].msg = "Operation would result in negative stock"
    /\ loc[s].item_id \in DOMAIN items
    /\ HasRow(loc[s].item_id, "DISPATCH")

\* C3: the quantity update and the ledger insert of one adjust_stock call are
\* all or nothing: a call that has written the quantity ends only with its
\* movement row inserted, or with the quantity put back.
C3_AdjustAllOrNothing ==
  [][\A s \in Sessions :
       (pc[s] = "adjust_log" /\ pc'[s] = "returned") =>
         LET id == loc[s].item_id
         IN \/ /\ Len(stock_movements') = Len(stock_movements) + 1
               /\ stock_movements'[Len(stock_movements')].item_id = id
               /\ stock_movements'[Len(stock_movements')].quantity = loc[s].quantity
            \/ /\ id \in DOMAIN items
               /\ items'[id].quantity = items[id].quantity - loc[s].quantity]_vars

\* C4: adjust_stock calls of two sessions on one item do not both commit
\* against one stale quantity: once all calls have returned, the quantity is
\* the initial quantity plus the deltas of the calls that succeeded (the
\* ledger rows), and the ledger sum is not negative.
C4_NoLostAdjust ==
  Quiet => \A i \in DOMAIN items : LedgerSum(i) >= 0 /\ items[i].quantity = LedgerSum(i)

\* C5: update_item, as the Update Item button calls it, leaves every item's
\* quantity as it was.
C5_UpdateKeepsQuantity ==
  [][\A s \in Sessions :
       (pc[s] = "idle" /\ pc'[s] = "returned" /\ loc'[s].fn = "update_item") =>
         \A i \in DOMAIN items : i \in DOMAIN items' /\ items'[i].quantity = items[i].quantity]_vars

\* C6: an item with a nonzero quantity has a ledger row, also after a Create
\* Item flow that ended between its two writes.
C6_StockHasLedgerRow ==
  Quiet => \A i \in DOMAIN items :
             items[i].quantity > 0 => \E k \in 1..Len(stock_movements) : stock_movements[k].item_id = i

\* C7: whatever the interleaving of creations, updates, deletions and
\* adjustments, no item's quantity is negative.
C7_QuantityNonNegative ==
  \A i \in DOMAIN items : items[i].quantity >= 0

\* two sessions have both passed the check of a dispatch against the same
\* quantity of one item, and both have written
C7_Witness ==
  \E s, t \in Sessions :
    /\ s # t
    /\ pc[s] = "adjust_log" /\ pc[t] = "adjust_log"
    /\ loc[s].item_id = loc[t].item_id
    /\ loc[s].quantity < 0 /\ loc[t].quantity < 0
    /\ loc[s].new_qty = 0 /\ loc[t].new_qty = 0
    /\ loc[s].item_id \in DOMAIN items

\* C8: a successful adjust_stock(item_id, delta, kind, party, note), called
\* on its own, sets the item's quantity to its previous quantity + delta and
\* appends one movement (item_id, kind, delta, party, note) whose id is above
\* every id in the ledger; no other item, no other field and no earlier
\* movement changes.
C8_AdjustEffect ==
  [][\A s \in Sessions :
       LET id == loc[s].item_id
           n == Len(stock_movements)
       IN /\ (pc[s] = "adjust_update" /\ pc'[s] = "adjust_log") =>
               /\ id \in DOMAIN items
               /\ items' = [items EXCEPT ![id].quantity = @ + loc[s].quantity]
               /\ stock_movements' = stock_movements
          /\ (pc[s] = "adjust_log" /\ pc'[s] = "returned" /\ loc'[s].ok) =>
               /\ items' = items
               /\ Len(stock_movements') = n + 1
               /\ SubSeq(stock_movements', 1, n) = stock_movements
               /\ LET m == stock_movements'[n + 1]
                  IN /\ m.item_id = id
                     /\ m.movement_type = loc[s].movement_type
                     /\ m.quantity = loc[s].quantity
                     /\ m.party = loc[s].party
                     /\ m.note = loc[s].note
                     /\ \A k \in 1..n : m.id > stock_movements[k].id]_vars

\* a dispatch has succeeded with a second item in the table and an earlier
\* movement in the ledger
C8_Witness ==
  \E s \in Sessions :
    /\ pc[s] = "returned"
    /\ loc[s].fn = "adjust_stock"
    /\ loc[s].ok
    /\ loc[s].quantity < 0
    /\ Cardinality(DOMAIN items) = 2
    /\ Len(stock_movements) = 2

\* no two rows of items hold the same item_code
UniqueCodes ==
  \A i, j \in DOMAIN items : items[i].item_code = items[j].item_code => i = j

\* C9: item codes are unique in every state; create_item with a code that a
\* row holds fails with "Item code must be unique", changes no item and logs
\* no movement.
C9_UniqueCodes ==
  /\ []UniqueCodes
  /\ [][\A s \in Sessions :
          (pc[s] = "idle" /\ pc'[s] # "idle" /\ loc'[s].fn = "create_item"
             /\ IdsOfCode(loc'[s].item_code) # {}) =>
            /\ pc'[s] = "returned"
            /\ ~loc'[s].ok
            /\ loc'[s].msg = "Item code must be unique"
            /\ items' = items
            /\ stock_movements' = stock_movements]_vars

\* a creation with stock was refused for its code, beside two items
C9_Witness ==
  \E s \in Sessions :
    /\ pc[s] = "returned"
    /\ loc[s].msg = "Item code must be unique"
    /\ loc[s].quantity > 0
    /\ Cardinality(DOMAIN items) = 2

\* C10: the ledger is append-only: every step keeps every movement row, with
\* every field, where it was; deleting an item deletes none of its movements.
C10_LedgerAppendOnly ==
  [][/\ Len(stock_movements') >= Len(stock_movements)
     /\ SubSeq(stock_movements', 1, Len(stock_movements)) = stock_movements]_vars

\* an item with two movements has been deleted; its movements are stored
C10_Witness ==
  \E k, l \in 1..Len(stock_movements) :
    /\ k # l
    /\ stock_movements[k].item_id = stock_movements[l].item_id
    /\ stock_movements[k].item_id \notin DOMAIN items

\* the sign the flows give a movement of this type
SignOk(movement_type, quantity) ==
  /\ quantity # 0
  /\ movement_type \in {"PURCHASE", "INITIAL"} => quantity > 0
  /\ movement_type = "DISPATCH" => quantity < 0

\* C11: every movement the flows record is nonzero, PURCHASE and INITIAL rows
\* are positive and DISPATCH rows negative; adjust_stock is never called with
\* a zero or wrong-signed quantity, and a zero typed into the Apply Stock
\* Increase form ends the run with an error.
C11_SignMatchesKind ==
  /\ \A k \in 1..Len(stock_movements) :
       SignOk(stock_movements[k].movement_type, stock_movements[k].quantity)
  /\ \A s \in Sessions :
       /\ loc[s].fn = "adjust_stock" => loc[s].quantity # 0
       /\ pc[s] \in {"adjust_update", "adjust_log"} =>
            SignOk(loc[s].movement_type, loc[s].quantity)
       /\ loc[s].fn = "increase" =>
            pc[s] = "returned" /\ ~loc[s].ok /\ loc[s].quantity <= 0

\* a zero increase is refused while the ledger holds an INITIAL and a DISPATCH row
C11_Witness ==
  /\ \E s \in Sessions : pc[s] = "returned" /\ loc[s].fn = "increase"
  /\ \E k, l \in 1..Len(stock_movements) :
       /\ stock_movements[k].movement_type = "INITIAL"
       /\ stock_movements[l].movement_type = "DISPATCH"

\* the Reporting page is on the screen of session s
Reported(s) == pc[s] = "returned" /\ loc[s].fn = "reporting"

\* C12: the movement history comes most recent first: by ts descending, and
\* rows of one ts by id descending.
C12_MostRecentFirst ==
  \A s \in Sessions : Reported(s) =>
    LET df == loc[s].movements_df
    IN \A a, b \in 1..Len(df) : a < b =>
         \/ df[a].ts > df[b].ts
         \/ df[a].ts = df[b].ts /\ df[a].id > df[b].id

\* C13: the low stock report lists exactly the items with quantity <=
\* min_stock: an item at its min_stock is listed, an item one above it is not,
\* an item at quantity 0 is listed.
C13_LowStockInclusive ==
  \A s \in Sessions : Reported(s) =>
    LET listed == {r.item_code : r \in loc[s].low_stock_df}
    IN /\ \A i \in DOMAIN items :
            /\ items[i].quantity = items[i].min_stock => items[i].item_code \in listed
            /\ items[i].quantity = items[i].min_stock + 1 => items[i].item_code \notin listed
            /\ items[i].quantity = 0 => items[i].item_code \in listed
            /\ items[i].item_code \in listed <=> items[i].quantity <= items[i].min_stock
       /\ \A r \in loc[s].low_stock_df :
            \E i \in DOMAIN items :
              /\ r.item_code = items[i].item_code
              /\ r.quantity = items[i].quantity
              /\ r.min_stock = items[i].min_stock

\* the report lists an item dispatched down to 0 and leaves out an item one
\* above its min_stock
C13_Witness ==
  \E s \in Sessions :
    /\ Reported(s)
    /\ \E i, j \in DOMAIN items :
         /\ HasRow(i, "DISPATCH") /\ items[i].quantity = 0
         /\ items[i].item_code \in {r.item_code : r \in loc[s].low_stock_df}
         /\ items[j].quantity = items[j].min_stock + 1
         /\ items[j].item_code \notin {r.item_code : r \in loc[s].low_stock_df}

\* C14: the daily dispatch summary maps each date to the absolute sum of the
\* quantities of all DISPATCH rows of the ledger of that date, each row
\* counted once.
C14_DailyDispatchTotals ==
  \A s \in Sessions : Reported(s) =>
    LET dispatch == SelectSeq(stock_movements, LAMBDA m : m.movement_type = "DISPATCH")
        dates == {DateOf(dispatch[k].ts) : k \in 1..Len(dispatch)}
    IN loc[s].daily_summary =
         [date \in dates |->
            LET total == SumOfDate(dispatch, date, 1)
            IN IF total < 0 THEN -total ELSE total]

\* the users table holds an admin
HasAdmin(table) == \E u \in DOMAIN table : table[u].role = "admin"

\* C15: whenever create_tables has run, the users table holds at least one
\* user with role admin, whatever registrations, role updates, password
\* resets and deletions came before.
C15_AdminAfterCreateTables ==
  [][\A s \in Sessions : pc[s] = "idle" /\ pc'[s] = "page" => HasAdmin(users')]_vars

\* C16: item ids are never reused: a created item gets an id above every id
\* assigned before (the ids of the rows, the ids the ledger refers to, the
\* AUTOINCREMENT sequence), so no movement recorded earlier refers to it.
C16_IdsNeverReused ==
  [][\A i \in DOMAIN items' \ DOMAIN items :
       /\ \A j \in DOMAIN items : i > j
       /\ i > sqlite_sequence.items
       /\ \A k \in 1..Len(stock_movements) : stock_movements[k].item_id < i]_vars

\* item 2 has just been created after item 1, to which the ledger refers, was
\* deleted
C16_Witness ==
  \E s \in Sessions :
    /\ pc[s] = "returned" /\ loc[s].fn = "create_item" /\ loc[s].ok /\ loc[s].quantity = 0
    /\ DOMAIN items = {2}
    /\ items[2].item_code = loc[s].item_code
    /\ \E k \in 1..Len(stock_movements) : stock_movements[k].item_id = 1
====
